---- MODULE Spec2Model ----
(***************************************************************************)
(* Model of the image-generation pipeline of image_generation_square:      *)
(*   src/gemini/api.py   the single-shot service (generate_image_api ->    *)
(*                       generate_image -> save_image)                     *)
(*   src/gemini/test.py  the batch tool (generate_batch ->                 *)
(*                       generate_one_prompt -> save_binary_file)          *)
(* of the pure helper slugify and the compositor add_logo_and_text shared   *)
(* by both files, and of the chat handlers of src/chat.py and               *)
(* src/openai/api.py, which share one conversation history per process.     *)
(*                                                                         *)
(* Text is a sequence of one-character strings.  An optional value (a      *)
(* Python value that may be None) is a sequence of length 0 or 1.          *)
(***************************************************************************)
EXTENDS Integers, Sequences, FiniteSets, TLC

VARIABLES
    entry,        \* the function this run enters the program through
    pc,           \* position of the running function
    api_key,      \* whether GOOGLE_API_KEY is set in the environment
    request,      \* the JSON body of the service request (an optional dict)
    prompts,      \* generate_batch: the prompts argument
    pi,           \* generate_batch: position of the for loop in prompts
    prompt,       \* the adapter's prompt argument
    max_retries,  \* the adapter's max_retries argument
    attempt,      \* the adapter's local attempt counter
    calls,        \* provider calls made by the current adapter invocation
    delays,       \* time.sleep arguments of the current adapter invocation
    provided,     \* the image payloads the latest provider call has delivered (none if it raised)
    last_exc,     \* the exception most recently caught by the current adapter invocation
    received,     \* generate_one_prompt: chunks the current stream has yielded
    idx,          \* generate_one_prompt: the local idx of the current pass
    files,        \* the output directory: path -> the payload written there
    clobbered,    \* whether some write has replaced a file that was there
    outcomes,     \* generate_batch: how each generate_one_prompt call ended
    result,       \* the value returned by the adapter (generate_image, generate_one_prompt)
    response,     \* the value returned by generate_image_api or generate_batch
    text,         \* slugify: the text argument
    slug,         \* slugify: the returned value
    image_data,   \* add_logo_and_text: the image_data argument
    logo_path,    \* add_logo_and_text: the logo_path argument (optional)
    phone_number, \* add_logo_and_text: the phone_number argument (optional)
    strict_dest,  \* whether the installed Pillow rejects a negative paste destination
    composed,     \* add_logo_and_text: how the call ended and the bytes it returned
    chat_log,     \* the module-level chat_log list of the chat application
    chat_responses, \* the module-level chat_responses list of src/chat.py
    handlers      \* the request handlers (coroutines) of the chat application

vars == <<entry, pc, api_key, request, prompts, pi, prompt, max_retries, attempt,
          calls, delays, provided,
          last_exc, received, idx, files, clobbered, outcomes, result, response, text, slug,
          image_data, logo_path, phone_number, strict_dest, composed,
          chat_log, chat_responses, handlers>>

\* the state of one add_logo_and_text call, and of the chat application
overlayVars == <<image_data, logo_path, phone_number, strict_dest, composed>>
chatVars == <<chat_log, chat_responses, handlers>>

----------------------------------------------------------------------------
(* Bounds of the exploration *)

MaxPrompts == 2        \* longest prompts list given to generate_batch
MaxChunks == 2         \* most chunks / parts in one provider response
MaxRetriesArg == 4     \* largest max_retries handed to an adapter directly
MaxTail == 3           \* slugify inputs: longest free tail after the long prefix
MaxDimExp == 6         \* base images are up to 16 * 2^MaxDimExp pixels wide and high
MaxTurns == 2          \* messages one websocket connection sends

(* Program constants *)

DefaultMaxLen == 40    \* slugify(text, max_len=40)
DefaultMaxRetries == 3 \* generate_image / generate_one_prompt (max_retries=3)
BackoffCap == 8        \* wait = min(8, 2 ** attempt)

----------------------------------------------------------------------------
(* Text helpers *)

Rep(c, n) == [i \in 1..n |-> c]

Min(a, b) == IF a < b THEN a ELSE b

Uppers == <<"A", "B", "C", "D", "E", "F", "G", "H", "I", "J", "K", "L", "M",
            "N", "O", "P", "Q", "R", "S", "T", "U", "V", "W", "X", "Y", "Z">>

Lowers == <<"a", "b", "c", "d", "e", "f", "g", "h", "i", "j", "k", "l", "m",
            "n", "o", "p", "q", "r", "s", "t", "u", "v", "w", "x", "y", "z">>

Digits == {"0", "1", "2", "3", "4", "5", "6", "7", "8", "9"}

Whitespace == {" ", "\t", "\n"}

\* the class [a-z0-9] of the regular expression on line 46
IsAlnum(c) == c \in Digits \/ \E i \in 1..26 : Lowers[i] = c

\* str.lower() on one character
LowerChar(c) ==
    IF \E i \in 1..26 : Uppers[i] = c
    THEN Lowers[CHOOSE i \in 1..26 : Uppers[i] = c]
    ELSE c

Lower(s) == [i \in 1..Len(s) |-> LowerChar(s[i])]

\* str.strip(chars): drop the characters of cs from both ends
RECURSIVE LStrip(_, _)
LStrip(s, cs) ==
    IF s # <<>> /\ Head(s) \in cs THEN LStrip(Tail(s), cs) ELSE s

RECURSIVE RStrip(_, _)
RStrip(s, cs) ==
    IF s # <<>> /\ s[Len(s)] \in cs THEN RStrip(SubSeq(s, 1, Len(s) - 1), cs) ELSE s

Strip(s, cs) == RStrip(LStrip(s, cs), cs)

\* re.sub(r"[^a-z0-9]+", "-", s): every maximal run of other characters
\* becomes one hyphen
RECURSIVE SubNonAlnum(_)
SubNonAlnum(s) ==
    IF s = <<>> THEN <<>>
    ELSE IF IsAlnum(Head(s)) THEN <<Head(s)>> \o SubNonAlnum(Tail(s))
    ELSE <<"-">> \o SubNonAlnum(LStrip(s, {c \in {s[i] : i \in 1..Len(s)} : ~IsAlnum(c)}))

\* re.sub(r"-{2,}", "-", s): every run of two or more hyphens becomes one
RECURSIVE SubHyphens(_)
SubHyphens(s) ==
    IF s = <<>> THEN <<>>
    ELSE IF Head(s) = "-" THEN <<"-">> \o SubHyphens(LStrip(s, {"-"}))
    ELSE <<Head(s)>> \o SubHyphens(Tail(s))

\* s[:n]
Take(s, n) == SubSeq(s, 1, Min(n, Len(s)))

PromptWord == <<"p", "r", "o", "m", "p", "t">>

\* slugify(text, max_len)
slugify(t, max_len) ==
    LET a == Lower(Strip(t, Whitespace))
        b == SubNonAlnum(a)
        c == Strip(SubHyphens(b), {"-"})
        d == Take(c, max_len)
    IN  IF d = <<>> THEN PromptWord ELSE d

----------------------------------------------------------------------------
(* The provider (google-genai), seen from the adapters *)

\* Python's None as a returned value
None == [type |-> "NoneType"]

\* the function has not returned yet
Pending == [type |-> "pending"]

\* exceptions the provider call can raise; str(e) may be empty
AuthError == [kind |-> "auth", msg |-> "API key not valid"]
TimedOut == [kind |-> "transient", msg |-> ""]

ProviderErrors == {AuthError, TimedOut}

\* a part carrying an image payload with the given declared media type
ImagePart(mime) ==
    [inline_data |-> <<[data |-> "bytes", mime_type |-> mime]>>, text |-> ""]

\* a part carrying incidental text: its inline_data is None
TextPart == [inline_data |-> <<>>, text |-> "caption"]

\* a part whose inline_data carries no bytes
EmptyDataPart == [inline_data |-> <<[data |-> "", mime_type |-> "image/png"]>>, text |-> ""]

ChunkOf(part) == [candidates |-> <<[content |-> <<[parts |-> <<part>>]>>]>>]

\* the media types the provider declares; "" stands for none
Mimes == {"image/png", ""}

\* the number of image payloads the provider put in a part
PayloadsIn(part) == IF part \in {ImagePart(m) : m \in Mimes} THEN 1 ELSE 0

\* the chunks generate_content_stream can yield
StreamChunks ==
    { [candidates |-> <<>>],
      [candidates |-> <<[content |-> <<>>]>>],
      ChunkOf(TextPart),
      ChunkOf(EmptyDataPart),
      ChunkOf(ImagePart("image/png")),
      ChunkOf(ImagePart("")) }

\* the number of image payloads the provider put in a chunk
PayloadsInChunk(chunk) ==
    IF chunk \in {ChunkOf(ImagePart(m)) : m \in Mimes} THEN 1 ELSE 0

SeqsUpTo(S, n) == UNION {[1..k -> S] : k \in 0..n}

----------------------------------------------------------------------------
(* src/gemini/test.py: the batch tool *)

\* the parts one chunk contributes
PartsOfChunk(chunk) ==
    IF chunk.candidates = <<>> THEN <<>>
    ELSE LET cand == chunk.candidates[1]
         IN  IF cand.content = <<>> THEN <<>>
             ELSE SelectSeq(cand.content[1].parts,
                            LAMBDA part : part.inline_data # <<>>
                                          /\ part.inline_data[1].data # "")

\* iter_image_parts_from_stream(stream_resp)
RECURSIVE iter_image_parts_from_stream(_)
iter_image_parts_from_stream(chunks) ==
    IF chunks = <<>> THEN <<>>
    ELSE PartsOfChunk(Head(chunks)) \o iter_image_parts_from_stream(Tail(chunks))

\* guess_extension(mime_type, default=".png")
guess_extension(mime_type) ==
    LET ext == CASE mime_type = "image/png" -> ".png"
                 [] mime_type = "image/jpeg" -> ".jpe"
                 [] OTHER -> ".png"
    IN  IF ext = ".jpe" THEN ".jpg" ELSE ext

\* file_name = f"{out_prefix}_{slug}_{idx}{ext}" under out_dir
FilePath(s, k, ext) == <<s, k, ext>>

\* the bytes of an image part, tagged with the generate_one_prompt call (the
\* position of its prompt in the batch) that received them
Payload(bytes, call) == [bytes |-> bytes, call |-> call]

\* save_binary_file(file_path, data, ...): open(file_path, "wb") creates the
\* file or replaces the one that is there.  A disk is the files on it and
\* whether a file was ever replaced.
save_binary_file(disk, file_path, data) ==
    [files |-> (file_path :> data) @@ disk.files,
     clobbered |-> disk.clobbered \/ file_path \in DOMAIN disk.files]

\* the body of the for loop (lines 177-183) for the yielded parts, the first
\* of them saved under index k
RECURSIVE SaveParts(_, _, _, _, _)
SaveParts(disk, parts, s, k, call) ==
    IF parts = <<>> THEN disk
    ELSE LET data == Payload(Head(parts).inline_data[1].data, call)
             mime == Head(parts).inline_data[1].mime_type
             ext == guess_extension(mime)
         IN  SaveParts(save_binary_file(disk, FilePath(s, k, ext), data),
                       Tail(parts), s, k + 1, call)

\* 2 ** n
RECURSIVE Pow2(_)
Pow2(n) == IF n = 0 THEN 1 ELSE 2 * Pow2(n - 1)

\* the backoff with the cap left out: wait = 2 ** attempt
BackoffUncapped(n) == Pow2(n)

\* wait = min(8, 2 ** attempt)
Backoff(n) == Min(BackoffCap, Pow2(n))

\* the budget test taken one attempt late: attempt > max_retries + 1
ExhaustedLate(n, budget) == n > budget + 1

\* attempt > max_retries: the retry budget is spent
Exhausted(n, budget) == n > budget

\* `not p or not p.strip()`
IsBlank(p) == p = <<>> \/ Strip(p, Whitespace) = <<>>

\* generate_batch, lines 198-201: the API key is required
GenerateBatchEnter ==
    /\ entry = "generate_batch" /\ pc = "start"
    /\ pc' = IF api_key THEN "loop" ELSE "RuntimeError"
    /\ UNCHANGED <<entry, api_key, request, prompts, pi, prompt, max_retries, attempt,
                   calls, delays, provided, last_exc, received, idx, files, clobbered, outcomes, result,
                   response, text, slug>>
    /\ UNCHANGED <<overlayVars, chatVars>>

\* generate_batch, lines 202-204: a blank prompt is skipped
GenerateBatchSkip ==
    /\ entry = "generate_batch" /\ pc = "loop"
    /\ pi <= Len(prompts) /\ IsBlank(prompts[pi])
    /\ pi' = pi + 1
    /\ UNCHANGED <<entry, pc, api_key, request, prompts, prompt, max_retries, attempt,
                   calls, delays, provided, last_exc, received, idx, files, clobbered, outcomes, result,
                   response, text, slug>>
    /\ UNCHANGED <<overlayVars, chatVars>>

\* generate_batch, lines 205-206: generate_one_prompt is called with p.strip()
\* and the default max_retries; its locals are initialised (lines 167-170)
GenerateBatchCall ==
    /\ entry = "generate_batch" /\ pc = "loop"
    /\ pi <= Len(prompts) /\ ~IsBlank(prompts[pi])
    /\ prompt' = Strip(prompts[pi], Whitespace)
    /\ max_retries' = DefaultMaxRetries
    /\ attempt' = 0 /\ calls' = 0 /\ delays' = <<>> /\ last_exc' = <<>>
    /\ received' = 0 /\ idx' = 0 /\ provided' = <<>>
    /\ result' = Pending
    /\ pc' = "try"
    /\ UNCHANGED <<entry, api_key, request, prompts, pi, files, clobbered, outcomes,
                   response, text, slug>>
    /\ UNCHANGED <<overlayVars, chatVars>>

\* generate_batch falls off the end of the for loop: it returns None
GenerateBatchReturn ==
    /\ entry = "generate_batch" /\ pc = "loop"
    /\ pi > Len(prompts)
    /\ pc' = "done" /\ response' = None
    /\ UNCHANGED <<entry, api_key, request, prompts, pi, prompt, max_retries, attempt,
                   calls, delays, provided, last_exc, received, idx, files, clobbered, outcomes, result,
                   text, slug>>
    /\ UNCHANGED <<overlayVars, chatVars>>

\* the exhausted budget leaving generate_one_prompt by `raise` instead of
\* `break`: the exception goes up through generate_batch
OnePromptReraise(tag) ==
    /\ outcomes' = Append(outcomes, [at |-> pi, tag |-> tag])
    /\ IF tag = "ERROR"
       THEN pc' = "Exception" /\ pi' = pi /\ result' = result
       ELSE /\ result' = None
            /\ IF entry = "generate_batch"
               THEN pc' = "loop" /\ pi' = pi + 1
               ELSE pc' = "done" /\ pi' = pi

\* generate_one_prompt leaves its loop by `break` and returns None to its caller
OnePromptReturn(tag) ==
    /\ outcomes' = Append(outcomes, [at |-> pi, tag |-> tag])
    /\ result' = None
    /\ IF entry = "generate_batch"
       THEN pc' = "loop" /\ pi' = pi + 1
       ELSE pc' = "done" /\ pi' = pi

\* the except clause without `attempt += 1`: it sleeps and tries again
OnePromptExceptUncounted(e) ==
    /\ attempt' = attempt
    /\ last_exc' = <<e>>
    /\ delays' = Append(delays, Backoff(attempt + 1))
    /\ pc' = "try"
    /\ UNCHANGED <<pi, outcomes, result>>

\* generate_one_prompt, lines 187-194: the except clause, for the exception e
OnePromptExcept(e) ==
    /\ attempt' = attempt + 1
    /\ last_exc' = <<e>>
    /\ IF Exhausted(attempt + 1, max_retries)
       THEN /\ OnePromptReturn("ERROR")
            /\ UNCHANGED delays
       ELSE /\ delays' = Append(delays, Backoff(attempt + 1))
            /\ pc' = "try"
            /\ UNCHANGED <<pi, outcomes, result>>

\* generate_one_prompt, lines 173-175: the provider is called; the call raises
\* or hands back a stream
OnePromptCall ==
    /\ entry \in {"generate_batch", "generate_one_prompt"} /\ pc = "try"
    /\ calls' = calls + 1
    /\ \/ /\ pc' = "stream"
          /\ idx' = 0 /\ received' = 0 /\ provided' = <<0>>
          /\ UNCHANGED <<attempt, last_exc, delays, pi, outcomes, result>>
       \/ /\ \E e \in ProviderErrors : OnePromptExcept(e)
          /\ provided' = <<>>
          /\ UNCHANGED <<idx, received>>
    /\ UNCHANGED <<entry, api_key, request, prompts, prompt, max_retries, files,
                   clobbered,                   response, text, slug>>
    /\ UNCHANGED <<overlayVars, chatVars>>

\* generate_one_prompt, lines 176-183: the stream yields one more chunk and its
\* image parts are saved
OnePromptChunk ==
    /\ entry \in {"generate_batch", "generate_one_prompt"} /\ pc = "stream"
    /\ received < MaxChunks
    /\ received' = received + 1
    /\ LET s == slugify(prompt, DefaultMaxLen)
       IN  \E chunk \in StreamChunks :
             LET parts == iter_image_parts_from_stream(<<chunk>>)
                 disk == SaveParts([files |-> files, clobbered |-> clobbered],
                                   parts, s, idx, pi)
             IN  /\ provided' = <<provided[1] + PayloadsInChunk(chunk)>>
                 /\ files' = disk.files
                 /\ clobbered' = disk.clobbered
                 /\ idx' = idx + Len(parts)
    /\ UNCHANGED <<entry, pc, api_key, request, prompts, pi, prompt, max_retries,
                   attempt, calls, delays, last_exc, outcomes, result, response,
                   text, slug>>
    /\ UNCHANGED <<overlayVars, chatVars>>

\* the stream raises while it is iterated (line 176), into the except clause
OnePromptStreamRaise ==
    /\ entry \in {"generate_batch", "generate_one_prompt"} /\ pc = "stream"
    /\ \E e \in ProviderErrors : OnePromptExcept(e)
    /\ provided' = <<>>
    /\ UNCHANGED <<entry, api_key, request, prompts, prompt, max_retries, calls,
                   received, idx, files, clobbered, response, text, slug>>
    /\ UNCHANGED <<overlayVars, chatVars>>

\* generate_one_prompt, lines 184-186: the stream is exhausted
OnePromptStreamEnd ==
    /\ entry \in {"generate_batch", "generate_one_prompt"} /\ pc = "stream"
    /\ OnePromptReturn(IF idx = 0 THEN "INFO" ELSE "OK")
    /\ UNCHANGED <<entry, api_key, request, prompts, prompt, max_retries, attempt,
                   calls, delays, provided, last_exc, received, idx, files, clobbered, response, text, slug>>
    /\ UNCHANGED <<overlayVars, chatVars>>

----------------------------------------------------------------------------
(* src/gemini/api.py: the single-shot service *)

\* a part object that has no inline_data attribute at all
NoAttrPart == [text |-> "caption"]

\* the parts a generate_content response can carry
ResponseParts == {ImagePart("image/png"), TextPart, EmptyDataPart, NoAttrPart}

\* one provider call: it raises, or returns response.candidates[0].content.parts
ResponseOutcomes ==
    {[parts |-> ps, exc |-> <<>>] : ps \in SeqsUpTo(ResponseParts, MaxChunks)}
    \cup {[parts |-> <<>>, exc |-> <<x>>] : x \in ProviderErrors}

\* `part.inline_data.data` on a part whose inline_data is None
AttributeError ==
    [kind |-> "AttributeError", msg |-> "'NoneType' object has no attribute 'data'"]

\* the for loop of lines 141-155: the first part that decides the pass.
\* found: a part with bytes was met; exc: the test of line 142 raised first
RECURSIVE ScanParts(_)
ScanParts(parts) ==
    IF parts = <<>> THEN [found |-> FALSE, exc |-> <<>>, data |-> ""]
    ELSE LET part == Head(parts)
         IN  IF "inline_data" \notin DOMAIN part THEN ScanParts(Tail(parts))
             ELSE IF part.inline_data = <<>>
             THEN [found |-> FALSE, exc |-> <<AttributeError>>, data |-> ""]
             ELSE IF part.inline_data[1].data # ""
             THEN [found |-> TRUE, exc |-> <<>>, data |-> part.inline_data[1].data]
             ELSE ScanParts(Tail(parts))

\* str(uuid.uuid4())[:8]
Uids == {"1f0e3dad", "9b2c44e0"}

\* save_image, lines 102-104: file_name = f"image_{unique_id}.png" under out_dir
ImagePath(uid) == <<"outputs", "/", "image_", uid, ".png">>

\* save_image, lines 111-114: the bytes are written and the path returned
save_image(disk, uid, data) == save_binary_file(disk, ImagePath(uid), data)

\* image_url = f"{base_url}/{file_path}"
ImageUrl(path) == <<"http://localhost:8080", "/">> \o path

\* the dict of lines 151-155
SuccessResult(path) ==
    [type |-> "dict", success |-> TRUE, image_path |-> path, image_url |-> ImageUrl(path)]

\* the dict of lines 158-161
NoImageResult ==
    [type |-> "dict", success |-> FALSE, error |-> <<"No image generated in response">>]

\* the failure dict carrying the bare str(e), without the "Failed after" text
FailedResultBare(budget, e) ==
    [type |-> "dict", success |-> FALSE, error |-> <<e.msg>>]

\* the dict of lines 166-169
FailedResult(budget, e) ==
    [type |-> "dict", success |-> FALSE,
     error |-> <<"Failed after ", ToString(budget), " retries: ", e.msg>>]

\* generate_image_api, lines 178-192 and 245-246: the request is validated
GenerateImageApiEnter ==
    /\ entry = "generate_image_api" /\ pc = "start"
    /\ IF ~api_key
       THEN /\ response' = [type |-> "http", status |-> 500,
                            body |-> [error |-> <<"Missing GOOGLE_API_KEY in environment">>]]
            /\ pc' = "done"
            /\ UNCHANGED <<prompt, max_retries, attempt, calls, delays, last_exc, provided>>
       ELSE IF request = <<>>
       THEN /\ response' = [type |-> "http", status |-> 500,
                            body |-> [error |-> <<"'NoneType' object has no attribute 'get'">>]]
            /\ pc' = "done"
            /\ UNCHANGED <<prompt, max_retries, attempt, calls, delays, last_exc, provided>>
       ELSE IF request[1].prompt = <<>>
       THEN /\ response' = [type |-> "http", status |-> 400,
                            body |-> [error |-> <<"Missing 'prompt' in request">>]]
            /\ pc' = "done"
            /\ UNCHANGED <<prompt, max_retries, attempt, calls, delays, last_exc, provided>>
       ELSE /\ prompt' = request[1].prompt
            /\ max_retries' = DefaultMaxRetries
            /\ attempt' = 0 /\ calls' = 0 /\ delays' = <<>> /\ last_exc' = <<>>
            /\ provided' = <<>>
            /\ pc' = "try"
            /\ UNCHANGED response
    /\ UNCHANGED <<entry, api_key, request, prompts, pi, received, idx, files,
                   clobbered, outcomes, result, text, slug>>
    /\ UNCHANGED <<overlayVars, chatVars>>

\* generate_image, lines 163-172: the except clause, for the exception e
GenerateImageExcept(e) ==
    /\ attempt' = attempt + 1
    /\ last_exc' = <<e>>
    /\ IF Exhausted(attempt + 1, max_retries)
       THEN /\ result' = FailedResult(max_retries, e)
            /\ pc' = "returned"
            /\ UNCHANGED delays
       ELSE /\ delays' = Append(delays, Backoff(attempt + 1))
            /\ UNCHANGED <<pc, result>>

\* generate_image, lines 136-172: one provider call and what follows it
GenerateImageTry ==
    /\ entry \in {"generate_image_api", "generate_image"} /\ pc = "try"
    /\ calls' = calls + 1
    /\ \E o \in ResponseOutcomes, uid \in Uids :
         LET scan == ScanParts(o.parts)
             exc == IF o.exc # <<>> THEN o.exc ELSE scan.exc
             disk == save_image([files |-> files, clobbered |-> clobbered],
                                uid, Payload(scan.data, 0))
         IN  /\ provided' = IF o.exc # <<>> THEN <<>>
                            ELSE <<Cardinality({i \in 1..Len(o.parts) :
                                                   PayloadsIn(o.parts[i]) = 1})>>
             /\ IF exc # <<>>
                THEN /\ GenerateImageExcept(exc[1])
                     /\ UNCHANGED <<files, clobbered>>
                ELSE IF scan.found
                THEN /\ files' = disk.files
                     /\ clobbered' = disk.clobbered
                     /\ result' = SuccessResult(ImagePath(uid))
                     /\ pc' = "returned"
                     /\ UNCHANGED <<attempt, delays, last_exc>>
                ELSE /\ result' = NoImageResult
                     /\ pc' = "returned"
                     /\ UNCHANGED <<files, clobbered, attempt, delays, last_exc>>
    /\ UNCHANGED <<entry, api_key, request, prompts, pi, prompt, max_retries,
                   received, idx, outcomes, response, text, slug>>
    /\ UNCHANGED <<overlayVars, chatVars>>

\* generate_image_api, line 243: return jsonify(result); a direct caller of
\* generate_image just receives the dict
GenerateImageReturn ==
    /\ entry \in {"generate_image_api", "generate_image"} /\ pc = "returned"
    /\ pc' = "done"
    /\ response' = IF entry = "generate_image_api"
                   THEN [type |-> "http", status |-> 200, body |-> result]
                   ELSE response
    /\ UNCHANGED <<entry, api_key, request, prompts, pi, prompt, max_retries, attempt,
                   calls, delays, provided, last_exc, received, idx, files, clobbered, outcomes, result,
                   text, slug>>
    /\ UNCHANGED <<overlayVars, chatVars>>

----------------------------------------------------------------------------
(* add_logo_and_text, the same in src/gemini/api.py (43-95) and             *)
(* src/gemini/test.py (65-117).  An image is its width and height; bytes    *)
(* are the image they decode to, if any, and who encoded them.              *)

Max(a, b) == IF a > b THEN a ELSE b

UnidentifiedImageError == [kind |-> "UnidentifiedImageError", msg |-> "cannot identify image file"]
FileNotFoundError == [kind |-> "FileNotFoundError", msg |-> "No such file or directory"]
ValueError(msg) == [kind |-> "ValueError", msg |-> msg]

\* Image.alpha_composite(im, dest) of a Pillow that rejects a negative dest
AlphaCompositeRaises(dest, strict) == strict /\ Min(dest[1], dest[2]) < 0

\* lines 55-62: the size the logo is resized to and where it is pasted
LogoBox(img, logo) ==
    LET new_h == Max(40, img.height \div 10)
        new_w == (new_h * logo.width) \div Max(1, logo.height)
        margin == Max(10, img.width \div 100)
    IN  [new_w |-> new_w, new_h |-> new_h,
         x |-> img.width - new_w - margin,
         y |-> img.height - new_h - margin]

\* what the logo block leaves nothing of: no exception, no logo
NoLogo == [exc |-> <<>>, logo_path |-> <<>>, logo_left |-> <<>>, logo |-> <<>>,
           log |-> <<>>]

\* the logo block without its `except FileNotFoundError`: the error leaves it
LogoNotFoundUncaught(path) ==
    [NoLogo EXCEPT !.exc = <<FileNotFoundError>>, !.logo_path = path]

\* lines 68-70: the missing logo file is reported and logo_path set to None
LogoNotFound(path) ==
    [NoLogo EXCEPT !.log = <<"[WARN] Logo file not found, skipping logo.">>]

\* lines 51-70: the logo block.  exc is the exception that leaves it;
\* logo_path and logo_left are the locals after it; logo is what was pasted
LogoBlock(img, path, strict) ==
    IF path = <<>> THEN NoLogo
    ELSE IF path[1].file = "missing" THEN LogoNotFound(path)
    ELSE IF path[1].file = "unreadable"
    THEN [NoLogo EXCEPT !.exc = <<UnidentifiedImageError>>, !.logo_path = path]
    ELSE LET box == LogoBox(img, path[1])
         IN  IF box.new_w <= 0
             THEN [NoLogo EXCEPT !.exc = <<ValueError("height and width must be > 0")>>,
                                 !.logo_path = path]
             ELSE IF \/ AlphaCompositeRaises(<<box.x + 2, box.y + 2>>, strict)
                     \/ AlphaCompositeRaises(<<box.x, box.y>>, strict)
             THEN [NoLogo EXCEPT !.exc = <<ValueError("Destination must be non-negative")>>,
                                 !.logo_path = path]
             ELSE [NoLogo EXCEPT !.logo_path = path, !.logo_left = <<box.x>>,
                                 !.logo = <<box>>]

\* lines 77-85: where the label and its background are drawn; label is the
\* bounding box textbbox measures for phone_number
LabelBox(img, path, logo_left, label) ==
    LET margin == Max(10, img.width \div 100)
        x == IF path # <<>> /\ logo_left # <<>>
             THEN Max(margin, logo_left[1] - label.text_w - margin)
             ELSE margin
        y == img.height - label.text_h - margin
        pad == (label.text_h * 35) \div 100
    IN  [x |-> x, y |-> y, pad |-> pad, bg_x |-> x - pad, bg_y |-> y - pad]

\* lines 72-88: the label block
LabelBlock(img, path, logo_left, phone, strict) ==
    IF phone = <<>> THEN [exc |-> <<>>, label |-> <<>>]
    ELSE LET box == LabelBox(img, path, logo_left, phone[1])
         IN  IF AlphaCompositeRaises(<<box.bg_x, box.bg_y>>, strict)
             THEN [exc |-> <<ValueError("Destination must be non-negative")>>,
                   label |-> <<>>]
             ELSE [exc |-> <<>>, label |-> <<box>>]

\* bytes as they come from the provider: img is the image they decode to
InputBytes(img) == [type |-> "bytes", encoder |-> "provider", image |-> img,
                    logo |-> <<>>, label |-> <<>>]

\* lines 90-92: the composed image saved as PNG into a new buffer
EncodedBytes(img, logo, label) ==
    [type |-> "bytes", encoder |-> "add_logo_and_text", image |-> <<img>>,
     logo |-> logo, label |-> label]

\* an outer handler that catches decode errors only: any other exception
\* leaves add_logo_and_text
OverlayFailedNarrow(data, e, log) ==
    IF e.kind = "UnidentifiedImageError"
    THEN [raised |-> <<>>, value |-> <<data>>, log |-> Append(log, "[WARN] Overlay failed")]
    ELSE [raised |-> <<e>>, value |-> <<>>, log |-> log]

\* lines 93-95: any exception is reported and the input bytes are returned
OverlayFailed(data, e, log) ==
    [raised |-> <<>>, value |-> <<data>>, log |-> Append(log, "[WARN] Overlay failed")]

\* lines 43-95.  raised: the exception that leaves the call, if any;
\* value: the bytes returned; log: the lines printed
add_logo_and_text(data, path, phone, strict) ==
    IF data.image = <<>> THEN OverlayFailed(data, UnidentifiedImageError, <<>>)
    ELSE LET img == data.image[1]
             lg == LogoBlock(img, path, strict)
         IN  IF lg.exc # <<>> THEN OverlayFailed(data, lg.exc[1], lg.log)
             ELSE LET lb == LabelBlock(img, lg.logo_path, lg.logo_left, phone, strict)
                  IN  IF lb.exc # <<>> THEN OverlayFailed(data, lb.exc[1], lg.log)
                      ELSE [raised |-> <<>>,
                            value |-> <<EncodedBytes(img, lg.logo, lb.label)>>,
                            log |-> lg.log]

\* one call of add_logo_and_text
AddLogoAndTextCall ==
    /\ entry = "add_logo_and_text" /\ pc = "start"
    /\ composed' = add_logo_and_text(image_data, logo_path, phone_number, strict_dest)
    /\ pc' = "done"
    /\ UNCHANGED <<entry, api_key, request, prompts, pi, prompt, max_retries, attempt,
                   calls, delays, provided, last_exc, received, idx, files, clobbered,
                   outcomes, result, response, text, slug>>
    /\ UNCHANGED <<image_data, logo_path, phone_number, strict_dest, chatVars>>

----------------------------------------------------------------------------
(* The chat applications: src/chat.py (websocket /ws and POST /) and        *)
(* src/openai/api.py (POST /chat).  Every handler is an `async def` run on  *)
(* the one event loop of the process: it runs alone from one `await` to the *)
(* next, and the provider calls, made through the synchronous client, are   *)
(* no await.  An action is one such uninterrupted stretch of one handler.   *)

ChatApps == {"src/chat.py", "src/openai/api.py"}

\* chat_log as the module creates it (chat.py 25-27, openai/api.py 21)
SystemMessage == [role |-> "system", by |-> 0, turn |-> 0]

\* {'role': 'user', 'content': user_input} of handler r's turn-th message
UserMessage(r, turn) == [role |-> "user", by |-> r, turn |-> turn]

\* {'role': 'assistant', 'content': bot_response}
AssistantMessage(r, turn) == [role |-> "assistant", by |-> r, turn |-> turn]

\* a history kept per connection: the system message and the handler's own
MessagesOwn(r, log) == SelectSeq(log, LAMBDA m : m.by \in {0, r})

\* messages=chat_log: the list handed to openai.chat.completions.create
Messages(r, log) == log

\* handler r with field f set to v
With(r, f, v) == [handlers EXCEPT ![r] = [handlers[r] EXCEPT ![f] = v]]

\* a handler's step touches nothing but the chat application's state
ChatFrame ==
    /\ entry \in ChatApps
    /\ UNCHANGED <<entry, pc, api_key, request, prompts, pi, prompt, max_retries, attempt,
                   calls, delays, provided, last_exc, received, idx, files, clobbered,
                   outcomes, result, response, text, slug, overlayVars>>

\* chat.py 33: await websocket.accept()
WsAccept(r) ==
    /\ handlers[r].kind = "ws" /\ handlers[r].pc = "accept"
    /\ handlers' = With(r, "pc", "receive")
    /\ UNCHANGED <<chat_log, chat_responses>>
    /\ ChatFrame

\* chat.py 36-58, from the text received up to the next await: the user
\* message is appended and the provider called; the call raises, or the stream
\* ends or raises before any content, or its first content is sent on
WsReceive(r) ==
    /\ handlers[r].kind = "ws" /\ handlers[r].pc = "receive"
    /\ handlers[r].turn < MaxTurns
    /\ LET h == handlers[r]
           turn == h.turn + 1
           log == Append(chat_log, UserMessage(r, turn))
           called == [h EXCEPT !.turn = turn, !.sent = Messages(r, log),
                               !.streamed = 0]
       IN  /\ chat_log' = log
           /\ \/ /\ handlers' = [handlers EXCEPT ![r] = [called EXCEPT !.pc = "closed"]]
                 /\ chat_responses' = Append(chat_responses, UserMessage(r, turn))
              \/ /\ handlers' = [handlers EXCEPT ![r] = [called EXCEPT !.pc = "receive"]]
                 /\ chat_responses' = chat_responses
                        \o <<UserMessage(r, turn), AssistantMessage(r, turn)>>
              \/ /\ handlers' = [handlers EXCEPT ![r] =
                                    [called EXCEPT !.pc = "sending", !.streamed = 1]]
                 /\ chat_responses' = Append(chat_responses, UserMessage(r, turn))
    /\ ChatFrame

\* chat.py 50-58, after `await websocket.send_text(...)` has returned: the
\* next content is sent on, or the stream ends and ai_response is appended to
\* chat_responses (never to chat_log), or the stream raises
WsResume(r) ==
    /\ handlers[r].kind = "ws" /\ handlers[r].pc = "sending"
    /\ \/ /\ handlers[r].streamed < MaxChunks
          /\ handlers' = With(r, "streamed", handlers[r].streamed + 1)
          /\ UNCHANGED chat_responses
       \/ /\ handlers' = With(r, "pc", "receive")
          /\ chat_responses' = Append(chat_responses,
                                      AssistantMessage(r, handlers[r].turn))
       \/ /\ handlers' = With(r, "pc", "closed")
          /\ UNCHANGED chat_responses
    /\ UNCHANGED chat_log
    /\ ChatFrame

\* chat.py 36: the client has gone, receive_text raises WebSocketDisconnect
\* outside the try and the handler ends
WsDisconnect(r) ==
    /\ handlers[r].kind = "ws" /\ handlers[r].pc = "receive"
    /\ handlers' = With(r, "pc", "closed")
    /\ UNCHANGED <<chat_log, chat_responses>>
    /\ ChatFrame

\* chat.py 61-77: POST /, which has no await and no try: an exception of the
\* provider call leaves the handler with the user message appended
ChatPost(r) ==
    /\ handlers[r].kind = "post" /\ handlers[r].pc = "arrived"
    /\ LET h == handlers[r]
           log == Append(chat_log, UserMessage(r, 1))
           called == [h EXCEPT !.turn = 1, !.sent = Messages(r, log)]
       IN  \/ /\ chat_log' = log
              /\ chat_responses' = Append(chat_responses, UserMessage(r, 1))
              /\ handlers' = [handlers EXCEPT ![r] = [called EXCEPT !.pc = "raised"]]
           \/ /\ chat_log' = Append(log, AssistantMessage(r, 1))
              /\ chat_responses' = chat_responses
                     \o <<UserMessage(r, 1), AssistantMessage(r, 1)>>
              /\ handlers' = [handlers EXCEPT ![r] = [called EXCEPT !.pc = "done"]]
    /\ ChatFrame

\* openai/api.py 23-36: POST /chat, which has no await; an exception of the
\* provider call is answered with {"error": ...}, the user message appended
ApiChat(r) ==
    /\ handlers[r].kind = "api" /\ handlers[r].pc = "arrived"
    /\ LET h == handlers[r]
           log == Append(chat_log, UserMessage(r, 1))
           called == [h EXCEPT !.turn = 1, !.sent = Messages(r, log)]
       IN  \/ /\ chat_log' = log
              /\ handlers' = [handlers EXCEPT ![r] = [called EXCEPT !.pc = "error"]]
           \/ /\ chat_log' = Append(log, AssistantMessage(r, 1))
              /\ handlers' = [handlers EXCEPT ![r] = [called EXCEPT !.pc = "done"]]
    /\ UNCHANGED chat_responses
    /\ ChatFrame

----------------------------------------------------------------------------
(* slugify called on its own *)

\* slugify(text), lines 44-48 of test.py and 22-26 of api.py
SlugifyCall ==
    /\ entry = "slugify" /\ pc = "start"
    /\ slug' = slugify(text, DefaultMaxLen)
    /\ pc' = "done"
    /\ UNCHANGED <<entry, api_key, request, prompts, pi, prompt, max_retries, attempt,
                   calls, delays, provided, last_exc, received, idx, files, clobbered, outcomes, result,
                   response, text>>
    /\ UNCHANGED <<overlayVars, chatVars>>

----------------------------------------------------------------------------
(* Inputs *)

NoFiles == [path \in {} |-> Payload("", 0)]

\* two prompts that agree on their first 40 normalised characters
LongPromptB == <<" ">> \o Rep("a", DefaultMaxLen) \o <<"b">>
LongPromptC == Rep("a", DefaultMaxLen) \o <<"c">>

RedShoe == <<" ", "R", "e", "d", " ", "s", "h", "o", "e", "!">>

PromptPool == {<<>>, <<" ", "\t">>, LongPromptB, LongPromptC}

\* the JSON bodies posted to /generate: none, one without a prompt, one with
Requests == {<<>>, <<[prompt |-> <<>>]>>, <<[prompt |-> RedShoe]>>}

SlugAlphabet == {"a", "Z", "7", " ", "-", "!"}

\* texts around the truncation length, and short ones
SlugInputs ==
    {Rep("a", n) \o tail :
        n \in {0} \cup ((DefaultMaxLen - 3)..(DefaultMaxLen + 1)),
        tail \in SeqsUpTo(SlugAlphabet, MaxTail)}

\* widths and heights of the base image
Dims == {16 * Pow2(k) : k \in 1..MaxDimExp}

\* the images image_data can hold, and bytes that do not decode
BaseImages ==
    {InputBytes(<<[width |-> w, height |-> h]>>) : w \in Dims, h \in Dims}
    \cup {InputBytes(<<>>)}

LogoFile(kind, w, h) == <<[file |-> kind, width |-> w, height |-> h]>>

\* logo_path: None, a path with no file, a file that is no image, and logos
\* that are wide, square, very narrow and very wide
LogoPaths ==
    {<<>>, LogoFile("missing", 0, 0), LogoFile("unreadable", 0, 0),
     LogoFile("image", 200, 100), LogoFile("image", 100, 100),
     LogoFile("image", 1, 500), LogoFile("image", 3000, 100)}

\* phone_number: None, or a text with the bounding box the font gives it
Labels ==
    {<<>>, <<[text_w |-> 90, text_h |-> 20]>>, <<[text_w |-> 180, text_h |-> 26]>>,
     <<[text_w |-> 420, text_h |-> 60]>>}

\* no add_logo_and_text call in this run
OverlayIdle ==
    /\ image_data = InputBytes(<<>>) /\ logo_path = <<>> /\ phone_number = <<>>
    /\ strict_dest = FALSE
    /\ composed = Pending

\* no chat application in this run
ChatIdle ==
    /\ chat_log = <<>> /\ chat_responses = <<>> /\ handlers = <<>>

InitCommon ==
    /\ pi = 1 /\ attempt = 0 /\ calls = 0 /\ delays = <<>> /\ last_exc = <<>>
    /\ provided = <<>>
    /\ received = 0 /\ idx = 0
    /\ files = NoFiles /\ clobbered = FALSE /\ outcomes = <<>>
    /\ result = Pending /\ response = Pending
    /\ slug = <<>>

\* generate_batch is given a list of prompts taken from pool
InitBatchOf(pool) ==
    /\ entry = "generate_batch" /\ pc = "start"
    /\ api_key \in BOOLEAN
    /\ prompts \in SeqsUpTo(pool, MaxPrompts)
    /\ request = <<>> /\ prompt = <<>> /\ text = <<>>
    /\ max_retries = DefaultMaxRetries

InitBatch == InitBatchOf(PromptPool)

InitOnePrompt ==
    /\ entry = "generate_one_prompt" /\ pc = "try"
    /\ api_key = TRUE
    /\ prompts = <<>> /\ request = <<>> /\ text = <<>>
    /\ prompt \in {Strip(p, Whitespace) : p \in {q \in PromptPool : ~IsBlank(q)}}
    /\ max_retries \in 0..MaxRetriesArg

InitService ==
    /\ entry = "generate_image_api" /\ pc = "start"
    /\ api_key \in BOOLEAN
    /\ request \in Requests
    /\ prompts = <<>> /\ prompt = <<>> /\ text = <<>>
    /\ max_retries = DefaultMaxRetries

InitImage ==
    /\ entry = "generate_image" /\ pc = "try"
    /\ api_key = TRUE
    /\ prompts = <<>> /\ request = <<>> /\ text = <<>>
    /\ prompt = RedShoe
    /\ max_retries \in 0..MaxRetriesArg

InitSlug ==
    /\ entry = "slugify" /\ pc = "start"
    /\ api_key = TRUE
    /\ prompts = <<>> /\ request = <<>> /\ prompt = <<>>
    /\ text \in SlugInputs
    /\ max_retries = DefaultMaxRetries

Init ==
    /\ InitCommon /\ OverlayIdle /\ ChatIdle
    /\ (InitOnePrompt \/ InitService \/ InitImage \/ InitSlug)

\* one call of an adapter, of the service or of slugify
Next ==
    \/ OnePromptCall
    \/ OnePromptChunk
    \/ OnePromptStreamRaise
    \/ OnePromptStreamEnd
    \/ GenerateImageApiEnter
    \/ GenerateImageTry
    \/ GenerateImageReturn
    \/ SlugifyCall

Spec == Init /\ [][Next]_vars

\* one run of the batch tool
BatchInit == InitCommon /\ OverlayIdle /\ ChatIdle /\ InitBatch

BatchNext ==
    \/ GenerateBatchEnter
    \/ GenerateBatchSkip
    \/ GenerateBatchCall
    \/ GenerateBatchReturn
    \/ OnePromptCall
    \/ OnePromptChunk
    \/ OnePromptStreamRaise
    \/ OnePromptStreamEnd

BatchSpec == BatchInit /\ [][BatchNext]_vars

\* any run of the service, of an adapter or of the batch tool, which goes on
\* as long as it has a step to take: nothing but the program itself stops it
RunInit ==
    /\ InitCommon /\ OverlayIdle /\ ChatIdle
    /\ (InitOnePrompt \/ InitService \/ InitImage \/ InitBatchOf({<<" ", "\t">>, LongPromptB}))

RunNext ==
    \/ GenerateBatchEnter
    \/ GenerateBatchSkip
    \/ GenerateBatchCall
    \/ GenerateBatchReturn
    \/ OnePromptCall
    \/ OnePromptChunk
    \/ OnePromptStreamRaise
    \/ OnePromptStreamEnd
    \/ GenerateImageApiEnter
    \/ GenerateImageTry
    \/ GenerateImageReturn

RunSpec == RunInit /\ [][RunNext]_vars /\ WF_vars(RunNext)

\* a handler as its request or connection arrives
NewHandler(kind) ==
    [kind |-> kind, pc |-> IF kind = "ws" THEN "accept" ELSE "arrived",
     turn |-> 0, sent |-> <<>>, streamed |-> 0]

\* a chat application serving one request or connection, or two at a time
ChatInit ==
    /\ InitCommon /\ OverlayIdle
    /\ entry \in ChatApps /\ pc = "serving"
    /\ api_key = TRUE /\ max_retries = DefaultMaxRetries
    /\ prompts = <<>> /\ request = <<>> /\ prompt = <<>> /\ text = <<>>
    /\ chat_log = <<SystemMessage>> /\ chat_responses = <<>>
    /\ \E n \in {1, 2} :
          handlers \in [1..n -> {NewHandler(k) :
                                    k \in IF entry = "src/chat.py"
                                          THEN {"ws", "post"} ELSE {"api"}}]

ChatNext ==
    \/ \E r \in DOMAIN handlers : WsAccept(r)
    \/ \E r \in DOMAIN handlers : WsReceive(r)
    \/ \E r \in DOMAIN handlers : WsResume(r)
    \/ \E r \in DOMAIN handlers : WsDisconnect(r)
    \/ \E r \in DOMAIN handlers : ChatPost(r)
    \/ \E r \in DOMAIN handlers : ApiChat(r)

ChatSpec == ChatInit /\ [][ChatNext]_vars

\* one call of the compositor
OverlayInit ==
    /\ InitCommon /\ ChatIdle
    /\ entry = "add_logo_and_text" /\ pc = "start"
    /\ api_key = TRUE /\ max_retries = DefaultMaxRetries
    /\ prompts = <<>> /\ request = <<>> /\ prompt = <<>> /\ text = <<>>
    /\ image_data \in BaseImages
    /\ logo_path \in LogoPaths
    /\ phone_number \in Labels
    /\ strict_dest \in BOOLEAN
    /\ composed = Pending

OverlayNext == AddLogoAndTextCall

OverlaySpec == OverlayInit /\ [][OverlayNext]_vars

----------------------------------------------------------------------------
(* Properties *)

Adapters == {"generate_one_prompt", "generate_image", "generate_image_api"}

\* the adapter has returned to its caller
Returned == pc \in {"returned", "done"}

\* C1: one adapter call (generate_image, generate_one_prompt), whatever
\* max_retries >= 0 it is given and however the provider fails, makes at most
\* max_retries + 1 provider calls (at most max_retries retries) and sleeps at
\* most max_retries times.
RetriesBounded ==
    entry \in Adapters =>
        /\ calls <= max_retries + 1
        /\ Len(delays) <= max_retries

\* C1 witness: an adapter given max_retries = 4 has spent its whole budget:
\* five provider calls, four sleeps, and it has returned
RetriesBoundedWitness ==
    /\ entry = "generate_one_prompt" /\ pc = "done"
    /\ max_retries = 4 /\ calls = 5 /\ Len(delays) = 4

\* the delay the specification gives for the k-th retry: 2, 4, 8, 8, ...
SpecDelay(k) == IF k = 1 THEN 2 ELSE IF k = 2 THEN 4 ELSE 8

\* C2: within one adapter call the k-th sleep lasts min(8, 2^k), so the delays
\* are 2, 4, 8, 8, ..., never decreasing and never above 8; every caught
\* exception but the one that spends the budget is followed by one sleep, and
\* that final one by none.
BackoffSequence ==
    entry \in Adapters =>
        /\ \A k \in 1..Len(delays) : delays[k] = SpecDelay(k) /\ delays[k] <= 8
        /\ \A k \in 2..Len(delays) : delays[k - 1] <= delays[k]
        /\ Len(delays) = IF attempt > max_retries THEN attempt - 1 ELSE attempt

\* C2 witness: generate_image has failed five times under max_retries = 4; it
\* slept 2, 4, 8, 8 and returned without a fifth sleep
BackoffSequenceWitness ==
    /\ entry = "generate_image" /\ pc = "returned"
    /\ attempt = 5 /\ max_retries = 4
    /\ delays = <<2, 4, 8, 8>>

\* C3: an authentication error raised by the provider call is surfaced at
\* once: once an adapter has caught one it has returned to its caller, with no
\* further provider call to come and no sleep after the error.
AuthErrorSurfaced ==
    (entry \in Adapters /\ last_exc = <<AuthError>>) =>
        /\ Returned
        /\ Len(delays) < attempt

\* C4: when the provider call succeeds and its response carries no image
\* payload, the adapter returns the "no image produced" outcome on that
\* attempt: generate_image returns the "No image generated" dict,
\* generate_one_prompt prints the [INFO] line and ends; neither retries nor
\* ends as failed after retries.
ZeroImagesReported ==
    (entry \in Adapters /\ provided = <<0>> /\ pc # "stream") =>
        /\ Returned
        /\ entry = "generate_one_prompt" => outcomes[Len(outcomes)].tag = "INFO"
        /\ entry # "generate_one_prompt" => result = NoImageResult

\* C5: when every provider call of one adapter invocation raises, the adapter
\* returns a failure result (success = false) whose error text ends with the
\* message of the last exception raised.
FailureCarriesLastError ==
    (entry \in Adapters /\ Returned /\ attempt > max_retries) =>
        /\ result.type = "dict"
        /\ result.success = FALSE
        /\ result.error[Len(result.error)] = last_exc[1].msg

\* C5 for generate_image alone, which does return such a dict
ServiceFailureCarriesLastError ==
    (entry \in {"generate_image", "generate_image_api"} /\ Returned
        /\ attempt > max_retries) =>
        /\ result.type = "dict"
        /\ result.success = FALSE
        /\ result.error[Len(result.error)] = last_exc[1].msg

\* a text (a sequence of fragments) with at least one character
NonEmptyText(t) == \E i \in 1..Len(t) : t[i] # ""

\* a result dict counts as a success when its success entry is true, and as a
\* failure otherwise (the service's {"error": ...} bodies carry no success entry)
IsSuccess(d) == "success" \in DOMAIN d /\ d.success

WellFormedResult(d) ==
    IF IsSuccess(d)
    THEN /\ "image_path" \in DOMAIN d /\ NonEmptyText(d.image_path)
         /\ "error" \notin DOMAIN d
    ELSE /\ "error" \in DOMAIN d /\ NonEmptyText(d.error)
         /\ "image_path" \notin DOMAIN d

\* C6: every result generate_image produces (image saved, no image in the
\* response, retries exhausted), and every JSON body generate_image_api
\* answers with, is either a success with a non-empty image_path and no error
\* or a failure with a non-empty error and no image_path.
ResultWellFormed ==
    entry \in {"generate_image", "generate_image_api"} =>
        /\ result # Pending => WellFormedResult(result)
        /\ response # Pending => WellFormedResult(response.body)

\* C6 witness: the service answered 200 with the failure dict after the
\* retries were exhausted by an exception whose message is empty
ResultWellFormedWitness ==
    /\ entry = "generate_image_api" /\ pc = "done"
    /\ response.status = 200
    /\ ~response.body.success
    /\ attempt > max_retries
    /\ last_exc = <<TimedOut>>

\* the positions of the prompts generate_batch does not skip
NonBlank == {i \in 1..Len(prompts) : ~IsBlank(prompts[i])}

\* C7: in a batch run a prompt whose retries are exhausted does not abort the
\* batch.  The run ends only by generate_batch returning (or, before any
\* prompt, by the RuntimeError of the missing API key); every non-blank prompt
\* before the current position has been submitted to generate_one_prompt, in
\* order, whatever the outcomes of the earlier ones; when generate_batch
\* returns every non-blank prompt has been; and every image payload the
\* provider has delivered in the current pass is on disk.
BatchContinues ==
    entry = "generate_batch" =>
        /\ \/ pc \in {"start", "loop", "try", "stream", "done"}
           \/ pc = "RuntimeError" /\ ~api_key /\ outcomes = <<>>
        /\ {outcomes[i].at : i \in 1..Len(outcomes)} = {i \in NonBlank : i < pi}
        /\ \A i \in 2..Len(outcomes) : outcomes[i - 1].at < outcomes[i].at
        /\ pc = "done" => Len(outcomes) = Cardinality(NonBlank)
        /\ pc = "stream" =>
              \A k \in 0..(provided[1] - 1) :
                  \E path \in DOMAIN files : path[2] = k /\ files[path].call = pi

\* C7 witness: the first of two prompts failed permanently, the second was
\* still submitted, succeeded and has its image on disk, and the batch ended
BatchContinuesWitness ==
    /\ entry = "generate_batch" /\ pc = "done"
    /\ Len(outcomes) = 2
    /\ outcomes[1].tag = "ERROR" /\ outcomes[2].tag = "OK"
    /\ \E path \in DOMAIN files : files[path].call = outcomes[2].at

\* C8: a batch run returns a sequence of results with exactly one entry per
\* non-blank prompt, in prompt order, an entry marked failed exactly when
\* that prompt's retries were exhausted.
BatchReturnsResults ==
    (entry = "generate_batch" /\ pc = "done") =>
        /\ response.type = "list"
        /\ Len(response.items) = Cardinality(NonBlank)
        /\ \A i \in 1..Len(response.items) :
              response.items[i].success = (outcomes[i].tag # "ERROR")

SlugChars == Digits \cup {Lowers[i] : i \in 1..26} \cup {"-"}

\* C9: for every text, slugify(text) is non-empty, made of [a-z0-9-] only,
\* has no two hyphens in a row, neither starts nor ends with a hyphen, and is
\* at most 40 characters long.
SlugWellFormed ==
    (entry = "slugify" /\ pc = "done") =>
        /\ slug # <<>>
        /\ \A i \in 1..Len(slug) : slug[i] \in SlugChars
        /\ \A i \in 2..Len(slug) : ~(slug[i - 1] = "-" /\ slug[i] = "-")
        /\ slug[1] # "-"
        /\ slug[Len(slug)] # "-"
        /\ Len(slug) <= 40

\* C9 without its last-character clause, which is what slugify does ensure
SlugWellFormedButTail ==
    (entry = "slugify" /\ pc = "done") =>
        /\ slug # <<>>
        /\ \A i \in 1..Len(slug) : slug[i] \in SlugChars
        /\ \A i \in 2..Len(slug) : ~(slug[i - 1] = "-" /\ slug[i] = "-")
        /\ slug[1] # "-"
        /\ Len(slug) <= 40

\* C10: within one batch run no write replaces a file written earlier in the
\* run: two image payloads are never written to the same path.
NamesNeverCollide == entry = "generate_batch" => ~clobbered

\* C10 for payloads of different prompts alone: no file changes the prompt
\* whose payload it holds
NoCrossPromptOverwrite ==
    [][\A path \in DOMAIN files : files'[path].call = files[path].call]_vars

\* add_logo_and_text printed its "[WARN] Overlay failed" line
OverlayWarned ==
    \E i \in 1..Len(composed.log) : composed.log[i] = "[WARN] Overlay failed"

MissingLogo == logo_path # <<>> /\ logo_path[1].file = "missing"

\* C11: add_logo_and_text never raises to its caller.  When the base image
\* does not decode, or any other exception occurs while compositing, it
\* returns exactly the bytes it was given; otherwise it returns newly encoded
\* bytes.  A missing logo file alone does not trigger the fallback: without a
\* label the call succeeds, and with one the label is applied unless the
\* label's own placement is what failed.
OverlayNeverRaises ==
    (entry = "add_logo_and_text" /\ pc = "done") =>
        /\ composed.raised = <<>>
        /\ Len(composed.value) = 1
        /\ image_data.image = <<>> => composed.value[1] = image_data
        /\ OverlayWarned => composed.value[1] = image_data
        /\ ~OverlayWarned =>
              /\ composed.value[1].encoder = "add_logo_and_text"
              /\ composed.value[1] # image_data
        /\ (MissingLogo /\ image_data.image # <<>>) =>
              /\ phone_number = <<>> => ~OverlayWarned
              /\ (phone_number # <<>> /\ ~OverlayWarned) =>
                    /\ composed.value[1].label # <<>>
                    /\ composed.value[1].logo = <<>>
              /\ OverlayWarned =>
                    /\ phone_number # <<>> /\ strict_dest
                    /\ LET box == LabelBox(image_data.image[1], <<>>, <<>>,
                                           phone_number[1])
                       IN  Min(box.bg_x, box.bg_y) < 0

\* C11 witness: pasting the logo raised (the image is too small for it), the
\* warning was printed and the caller got its own bytes back
OverlayNeverRaisesWitness ==
    /\ entry = "add_logo_and_text" /\ pc = "done"
    /\ image_data.image # <<>>
    /\ logo_path # <<>> /\ logo_path[1].file = "image"
    /\ OverlayWarned
    /\ composed.raised = <<>>
    /\ composed.value = <<image_data>>

\* C12: for every base image and label, a call whose logo_path names no
\* file returns the same bytes as the call with logo_path = None: no logo is
\* placed, and the label, when there is one, is drawn at the bottom-left
\* margin max(10, 1% of the width) as in the no-logo case.
MissingLogoAsNone ==
    (entry = "add_logo_and_text" /\ pc = "done" /\ MissingLogo) =>
        /\ composed.value =
              add_logo_and_text(image_data, <<>>, phone_number, strict_dest).value
        /\ composed.raised = <<>>
        /\ ~OverlayWarned =>
              /\ composed.value[1].logo = <<>>
              /\ phone_number # <<>> =>
                    /\ Len(composed.value[1].label) = 1
                    /\ composed.value[1].label[1].x =
                          Max(10, image_data.image[1].width \div 100)

\* C12 witness: the logo file was missing, the call still composed the image
\* and drew the label at the left margin of a 1024 px wide image
MissingLogoAsNoneWitness ==
    /\ entry = "add_logo_and_text" /\ pc = "done" /\ MissingLogo
    /\ phone_number # <<>>
    /\ image_data.image # <<>> /\ image_data.image[1].width = 1024
    /\ ~OverlayWarned
    /\ composed.value[1].encoder = "add_logo_and_text"
    /\ composed.value[1].logo = <<>>
    /\ composed.value[1].label # <<>> /\ composed.value[1].label[1].x = 10

\* C16: for every base image, logo and label size, the positions
\* add_logo_and_text pastes at are inside the image on the left and top: the
\* logo position (width - new_w - margin, height - new_h - margin) and the
\* label background position (x - pad, y - pad) are non-negative, so that a
\* logo or a label never sends the call into its return-the-input fallback.
PastePositionsInside ==
    (entry = "add_logo_and_text" /\ pc = "done" /\ image_data.image # <<>>) =>
        LET img == image_data.image[1]
            lg == LogoBlock(img, logo_path, FALSE)
        IN  /\ (logo_path # <<>> /\ logo_path[1].file = "image") =>
                  LET box == LogoBox(img, logo_path[1])
                  IN  box.x >= 0 /\ box.y >= 0
            /\ phone_number # <<>> =>
                  LET box == LabelBox(img, lg.logo_path, lg.logo_left, phone_number[1])
                  IN  box.x >= Max(10, img.width \div 100)
                      /\ box.bg_x >= 0 /\ box.bg_y >= 0
            /\ (logo_path = <<>> \/ logo_path[1].file = "image") => ~OverlayWarned

\* the label's x alone, which is what the code does keep right of the margin
LabelRightOfMargin ==
    (entry = "add_logo_and_text" /\ pc = "done" /\ ~OverlayWarned
        /\ phone_number # <<>>) =>
        composed.value[1].label[1].x >= Max(10, image_data.image[1].width \div 100)

\* C15: in generate_one_prompt failed attempts leave nothing behind.  Once
\* the call has ended, the files on disk for the prompt are exactly the image
\* parts of the final, successful pass (indices 0 .. idx - 1, each written
\* once), and none if every attempt failed; no file of a failed pass is left
\* over, and none was overwritten by the retry.
FailedAttemptsLeaveNothing ==
    (entry = "generate_one_prompt" /\ pc = "done") =>
        /\ outcomes[Len(outcomes)].tag = "ERROR" => DOMAIN files = {}
        /\ outcomes[Len(outcomes)].tag # "ERROR" =>
              \A path \in DOMAIN files : path[2] < idx
        /\ ~clobbered

\* C15 without retries: a call whose first pass succeeds leaves exactly that
\* pass's files
FirstPassLeavesItsFiles ==
    (entry = "generate_one_prompt" /\ pc = "done" /\ attempt = 0) =>
        /\ Cardinality(DOMAIN files) = idx
        /\ \A path \in DOMAIN files : path[2] < idx
        /\ ~clobbered

\* the run has returned to its caller (or raised the missing-key RuntimeError)
Finished == pc \in {"done", "RuntimeError"}

\* the steps one pass of the retry loop can still take
PassSteps ==
    IF pc = "stream" THEN MaxChunks - received + 1 ELSE MaxChunks + 2

\* the steps one adapter call can still take: every pass still allowed by
\* max_retries, then the return
CallSteps ==
    IF pc \in {"try", "stream"}
    THEN (max_retries - attempt) * (MaxChunks + 3) + PassSteps + 1
    ELSE IF pc \in {"start", "returned"} THEN 1 ELSE 0

\* the steps a whole run can still take
StepsLeft ==
    IF entry = "generate_batch"
    THEN LET perPrompt == (DefaultMaxRetries + 1) * (MaxChunks + 3) + 2
             pending == Len(prompts) + 1 - pi
         IN  IF pc = "start" THEN (Len(prompts) + 1) * perPrompt + 2
             ELSE IF pc = "loop" THEN pending * perPrompt + 1
             ELSE IF pc \in {"try", "stream"}
             THEN (pending - 1) * perPrompt + 1 + CallSteps
             ELSE 0
    ELSE IF entry = "generate_image_api" /\ pc = "start"
    THEN (DefaultMaxRetries + 1) * (MaxChunks + 3) + 2
    ELSE CallSteps

\* C14: every adapter invocation eventually returns, given that every
\* provider call returns or raises: each step of generate_image and of
\* generate_one_prompt uses up a finite budget (the passes max_retries still
\* allows, the chunks of the stream), which never goes below zero, so the retry
\* loop ends on a pass that does not raise or when the budget is spent; and
\* every run, a batch run over a finite prompt list included, reaches its end.
AdapterTerminates ==
    /\ [][StepsLeft' < StepsLeft /\ StepsLeft' >= 0]_vars
    /\ <>Finished

\* C14 witness: a batch of two prompts reached its end although the first
\* prompt used its whole retry budget
AdapterTerminatesWitness ==
    /\ entry = "generate_batch" /\ pc = "done"
    /\ Len(outcomes) = 2
    /\ outcomes[1].tag = "ERROR"
    /\ attempt = 0 /\ calls = 1

IsPrefix(a, b) == Len(a) <= Len(b) /\ SubSeq(b, 1, Len(a)) = a

\* the user message m has an assistant entry of its own in the history
Answered(m) ==
    \E i \in 1..Len(chat_log) : chat_log[i] = AssistantMessage(m.by, m.turn)

\* handler r is still at work on its latest message
InProgress(r) == handlers[r].pc = "sending"

\* a step leaves what the history held in place
HistoryOnlyGrows == IsPrefix(chat_log, chat_log')

\* what handler r last handed to the provider is the shared list as it stood
SentWholeHistory(r) ==
    LET h == handlers[r]
    IN  h.sent # <<>> =>
            /\ IsPrefix(h.sent, chat_log)
            /\ h.sent[Len(h.sent)] = UserMessage(r, h.turn)
            /\ h.sent[1] = SystemMessage

\* C13: the chat handlers share one process-wide history and take no lock.
\* The list a handler hands to the provider is the whole shared list as it
\* stands at the call, ending with the handler's own user message and holding
\* whatever any other request or connection has appended before, answered or
\* not; the history is only ever appended to.  (That two requests do
\* interleave in this way is the witness.)
SharedHistoryUnguarded ==
    /\ [](entry \in ChatApps => \A r \in DOMAIN handlers : SentWholeHistory(r))
    /\ [][HistoryOnlyGrows]_vars

\* C13 witness: while connection a is still streaming the answer to its
\* message, request b has sent the provider a list that holds a's unanswered
\* user message, and the history has two user entries in a row
SharedHistoryRace ==
    /\ entry = "src/chat.py"
    /\ \E a, b \in DOMAIN handlers :
          /\ a # b
          /\ InProgress(a)
          /\ ~Answered(UserMessage(a, handlers[a].turn))
          /\ \E i \in 1..Len(handlers[b].sent) :
                handlers[b].sent[i] = UserMessage(a, handlers[a].turn)
    /\ \E i \in 1..(Len(chat_log) - 1) :
          chat_log[i].role = "user" /\ chat_log[i + 1].role = "user"

\* two POST requests alone never interleave: a list a POST handler sends holds
\* no user message of a handler that is still at work, unless that handler
\* is a websocket connection
PostsRunAlone ==
    entry \in ChatApps =>
        \A a, b \in DOMAIN handlers :
            (a # b /\ handlers[a].kind # "ws" /\ handlers[a].turn > 0
                /\ ~Answered(UserMessage(a, 1))
                /\ \E i \in 1..Len(handlers[b].sent) :
                      handlers[b].sent[i] = UserMessage(a, 1))
            => handlers[a].pc \in {"raised", "error"}

====
